---- MODULE Spec2Model ----
(***************************************************************************)
(* Tracing-configuration resolution of pilot/pkg/networking/core/v1alpha3  *)
(* (tracing.go) and the readiness probe exercised by the probe tests that  *)
(* share the source file.                                                  *)
(*                                                                         *)
(* Conventions.                                                            *)
(*   - A Go pointer or optional field is a sequence of length 0 (nil) or   *)
(*     1 (set): None / Some(x).                                            *)
(*   - float64 percentages are modelled by integers (the code only         *)
(*     compares them with 0 and 100 and copies them).                      *)
(*   - A Go map is a function; the order in which `range` visits its keys  *)
(*     is an arbitrary enumeration of its domain.                          *)
(*   - sort.Slice is not stable.  The slices of the model are short (at    *)
(*     most 12 elements), for which Go's sort package runs an insertion    *)
(*     sort, preceded in the toolchains before Go 1.19 by one pass that    *)
(*     swaps out-of-order elements six places apart.                       *)
(***************************************************************************)
EXTENDS Integers, Sequences, FiniteSets, TLC

VARIABLES
    pc,                    \* "start" before configureTracing runs, "done" after
    spec,                  \* *telemetrypb.Telemetry handed to configureTracingFromSpec
    opts,                  \* buildListenerOpts: push context and proxy
    hcm,                   \* *hpb.HttpConnectionManager: [Tracing |-> None | Some(t)]
    EnableIstioTags,       \* features.EnableIstioTags
    pilotTraceSamplingEnv, \* package variable read by fallbackSamplingValue
    gapSortPass,           \* the toolchain's sort.Slice makes the gap-6 pass
    first,                 \* history: inputs and outcome of the first resolution
    atleastOnceReady,      \* Probe.atleastOnceReady
    server,                \* test admin server: None (closed) | Some(stats it serves)
    err,                   \* result of the last Probe.Check: None | Some(message)
    op,                    \* the last operation on the probe or its server
    checks                 \* number of Probe.Check calls so far

vars == <<pc, spec, opts, hcm, EnableIstioTags, pilotTraceSamplingEnv, gapSortPass, first,
          atleastOnceReady, server, err, op, checks>>

tracingVars ==
    <<pc, spec, opts, hcm, EnableIstioTags, pilotTraceSamplingEnv, gapSortPass, first>>
probeVars == <<atleastOnceReady, server, err, op, checks>>

None == <<>>
Some(x) == <<x>>

Range(s) == {s[i] : i \in DOMAIN s}

RECURSIVE SeqsUpTo(_, _)
\* all sequences over S of length at most n
SeqsUpTo(S, n) ==
    IF n = 0 THEN {<<>>}
    ELSE LET shorter == SeqsUpTo(S, n - 1)
         IN shorter \cup {Append(s, x) : s \in shorter, x \in S}

\* the enumerations of a finite set: the orders in which `range` may visit a map
Enumerations(S) ==
    {f \in [1..Cardinality(S) -> S] : \A x \in S : \E i \in 1..Cardinality(S) : f[i] = x}

(***************************************************************************)
(* Strings: the code compares tag names with < and provider names with     *)
(* strings.EqualFold.  Both are tabulated for the names the model uses.    *)
(***************************************************************************)

\* the tag names of the model in lexicographic (byte) order
TagOrder ==
    <<"app", "istio.canonical_revision", "istio.canonical_service",
      "istio.mesh_id", "istio.namespace", "zone">>

TagRank(name) == CHOOSE i \in DOMAIN TagOrder : TagOrder[i] = name

\* tags[i].Tag < tags[j].Tag
TagLess(a, b) == TagRank(a) < TagRank(b)

\* simple case folding of the provider names of the model
FoldCase(s) ==
    CASE s = "ZIPKIN" -> "zipkin"
      [] s = "Zipkin" -> "zipkin"
      [] OTHER -> s

EqualFold(a, b) == FoldCase(a) = FoldCase(b)

\* strconv.Atoi on the StsPort strings of the model
Atoi(s) ==
    CASE s = "15463" -> [err |-> FALSE, val |-> 15463]
      [] s = "0" -> [err |-> FALSE, val |-> 0]
      [] OTHER -> [err |-> TRUE, val |-> 0]

(***************************************************************************)
(* Tracing block and custom tags                                           *)
(***************************************************************************)

\* &hpb.HttpConnectionManager_Tracing{}
EmptyTracing ==
    [Provider |-> None, ClientSampling |-> None, OverallSampling |-> None,
     RandomSampling |-> None, CustomTags |-> <<>>, MaxPathTagLength |-> None]

EnvironmentTag(tag, name, default) ==
    [Tag |-> tag, Type |-> "Environment_", Name |-> name, DefaultValue |-> default, Value |-> ""]

defaultTags ==
    << EnvironmentTag("istio.canonical_revision", "CANONICAL_REVISION", "latest"),
       EnvironmentTag("istio.canonical_service", "CANONICAL_SERVICE", "unknown"),
       EnvironmentTag("istio.mesh_id", "ISTIO_META_MESH_ID", "unknown"),
       EnvironmentTag("istio.namespace", "POD_NAMESPACE", "default") >>

\* one iteration of the loop of buildCustomTagsFromProvider: the tag appended for
\* (tagName, tagInfo), or nothing when the descriptor holds none of the three variants
providerTag(tagName, tagInfo) ==
    CASE tagInfo.Type = "Environment" ->
           <<[Tag |-> tagName, Type |-> "Environment_", Name |-> tagInfo.Name,
              DefaultValue |-> tagInfo.DefaultValue, Value |-> ""]>>
      [] tagInfo.Type = "Header" ->
           <<[Tag |-> tagName, Type |-> "RequestHeader", Name |-> tagInfo.Name,
              DefaultValue |-> tagInfo.DefaultValue, Value |-> ""]>>
      [] tagInfo.Type = "Literal" ->
           <<[Tag |-> tagName, Type |-> "Literal_", Name |-> "",
              DefaultValue |-> "", Value |-> tagInfo.Value]>>
      [] OTHER -> <<>>

RECURSIVE buildCustomTagsFromProvider(_, _)
\* iter: the order in which range visits the keys of providerTags
buildCustomTagsFromProvider(providerTags, iter) ==
    IF iter = <<>> THEN <<>>
    ELSE providerTag(Head(iter), providerTags[Head(iter)])
         \o buildCustomTagsFromProvider(providerTags, Tail(iter))

\* one iteration of the loop of buildCustomTagsFromProxyConfig
proxyConfigTag(tagName, tagInfo) ==
    CASE tagInfo.Type = "Environment" ->
           <<[Tag |-> tagName, Type |-> "Environment_", Name |-> tagInfo.Name,
              DefaultValue |-> tagInfo.DefaultValue, Value |-> ""]>>
      [] tagInfo.Type = "Header" ->
           <<[Tag |-> tagName, Type |-> "RequestHeader", Name |-> tagInfo.Name,
              DefaultValue |-> tagInfo.DefaultValue, Value |-> ""]>>
      [] tagInfo.Type = "Literal" ->
           <<[Tag |-> tagName, Type |-> "Literal_", Name |-> "",
              DefaultValue |-> "", Value |-> tagInfo.Value]>>
      [] OTHER -> <<>>

RECURSIVE buildCustomTagsFromProxyConfig(_, _)
buildCustomTagsFromProxyConfig(customTags, iter) ==
    IF iter = <<>> THEN <<>>
    ELSE proxyConfigTag(Head(iter), customTags[Head(iter)])
         \o buildCustomTagsFromProxyConfig(customTags, Tail(iter))

\* the inner loop of insertionSort_func: t moves left past every tag of a greater
\* name in the sorted sequence s
InsertSorted(s, t) ==
    LET k == Cardinality({i \in DOMAIN s : ~TagLess(t.Tag, s[i].Tag)})
    IN SubSeq(s, 1, k) \o <<t>> \o SubSeq(s, k + 1, Len(s))

RECURSIVE insertionSort(_)
insertionSort(tags) ==
    IF tags = <<>> THEN <<>>
    ELSE InsertSorted(insertionSort(SubSeq(tags, 1, Len(tags) - 1)), tags[Len(tags)])

\* the ShellSort pass with gap 6 of quickSort_func over a slice of at most 12
\* elements: elements six places apart are swapped when out of order
gapPass(tags) ==
    [k \in DOMAIN tags |->
        IF k + 6 <= Len(tags) /\ TagLess(tags[k + 6].Tag, tags[k].Tag) THEN tags[k + 6]
        ELSE IF k > 6 /\ TagLess(tags[k].Tag, tags[k - 6].Tag) THEN tags[k - 6]
        ELSE tags[k]]

\* sort.Slice(tags, func(i, j) bool { return tags[i].Tag < tags[j].Tag }) on a
\* slice of at most 12 elements
sortSlice(tags) ==
    IF gapSortPass THEN insertionSort(gapPass(tags)) ELSE insertionSort(tags)

\* faulty variant: the legacy proxy tags are appended to the directive's tags
configureCustomTags_union(hcmTracing, providerTags, proxyCfg) ==
    LET builtin == IF EnableIstioTags THEN defaultTags ELSE <<>>
        legacy == IF proxyCfg.Tracing = None THEN <<>> ELSE proxyCfg.Tracing[1].CustomTags
        unsorted ==
            {builtin \o buildCustomTagsFromProvider(providerTags, it)
                     \o buildCustomTagsFromProxyConfig(legacy, jt) :
                 it \in Enumerations(DOMAIN providerTags),
                 jt \in Enumerations(DOMAIN legacy)}
    IN {[hcmTracing EXCEPT !.CustomTags = sortSlice(tags)] : tags \in unsorted}

\* the tracing blocks configureCustomTags may leave, over every iteration order of
\* the map it ranges over
configureCustomTags(hcmTracing, providerTags, proxyCfg) ==
    LET builtin == IF EnableIstioTags THEN defaultTags ELSE <<>>
        legacy == IF proxyCfg.Tracing = None THEN <<>> ELSE proxyCfg.Tracing[1].CustomTags
        unsorted ==
            IF Cardinality(DOMAIN providerTags) = 0
            THEN {builtin \o buildCustomTagsFromProxyConfig(legacy, it) :
                     it \in Enumerations(DOMAIN legacy)}
            ELSE {builtin \o buildCustomTagsFromProvider(providerTags, it) :
                     it \in Enumerations(DOMAIN providerTags)}
    IN {[hcmTracing EXCEPT !.CustomTags = sortSlice(tags)] : tags \in unsorted}

(***************************************************************************)
(* Sampling                                                                *)
(***************************************************************************)

\* f is features.TraceSampling (PILOT_TRACE_SAMPLING)
getPilotRandomSamplingEnv(f) ==
    IF f < 0 \/ f > 100 THEN 1 ELSE f

fallbackSamplingValue(config) ==
    IF config.Tracing # None /\ config.Tracing[1].Sampling # 0
    THEN IF config.Tracing[1].Sampling > 100 THEN 1 ELSE config.Tracing[1].Sampling
    ELSE pilotTraceSamplingEnv

\* faulty variant: the client and overall stages follow the resolved random percentage
configureSampling_stagesFollowRandom(hcmTracing, providerPercentage, proxyCfg) ==
    LET random == IF providerPercentage # 0 THEN providerPercentage
                  ELSE fallbackSamplingValue(proxyCfg)
    IN [hcmTracing EXCEPT !.ClientSampling = Some(random),
                          !.OverallSampling = Some(random),
                          !.RandomSampling = Some(random)]

\* faulty variant: a provider percentage of 0 is taken as an explicit 0
configureSampling_zeroIsSet(hcmTracing, providerPercentage, proxyCfg) ==
    [hcmTracing EXCEPT !.ClientSampling = Some(100),
                       !.OverallSampling = Some(100),
                       !.RandomSampling = Some(providerPercentage)]

configureSampling(hcmTracing, providerPercentage, proxyCfg) ==
    LET fixed == [hcmTracing EXCEPT !.ClientSampling = Some(100),
                                    !.OverallSampling = Some(100)]
    IN IF providerPercentage # 0
       THEN [fixed EXCEPT !.RandomSampling = Some(providerPercentage)]
       ELSE [fixed EXCEPT !.RandomSampling =
                              Some(fallbackSamplingValue(proxyCfg))]

(***************************************************************************)
(* Backend builders                                                        *)
(***************************************************************************)

\* extensionproviders.LookupCluster: the cluster name of (svc, port) when the push
\* context knows the service, an error otherwise
clusterLookupFn(pushCtx, svc, port) ==
    IF svc \in pushCtx.Services
    THEN [err |-> FALSE, cluster |-> <<"outbound", port, svc>>]
    ELSE [err |-> TRUE, cluster |-> <<>>]

\* the opaque typed configuration of a provider, by the fields the builders set
TypedConfig(type, cluster, address, project, stsPort) ==
    [Type |-> type, CollectorCluster |-> cluster, OcagentAddress |-> address,
     StackdriverProjectId |-> project, StsPort |-> stsPort]

zipkinConfigGen(cluster) ==
    [err |-> FALSE, any |-> TypedConfig("ZipkinConfig", cluster, <<>>, "", 0)]

datadogConfigGen(cluster) ==
    [err |-> FALSE, any |-> TypedConfig("DatadogConfig", cluster, <<>>, "", 0)]

lightstepConfigGen(cluster) ==
    [err |-> FALSE, any |-> TypedConfig("LightstepConfig", cluster, <<>>, "", 0)]

opencensusConfigGen(provider) ==
    [err |-> FALSE,
     any |-> TypedConfig("OpenCensusConfig", <<>>, <<provider.Service, provider.Port>>, "", 0)]

stackdriverConfigGen(meta) ==
    LET pm == meta.PlatformMetadata
        ok == "gcp_project" \in DOMAIN pm \/ "gcp_project_number" \in DOMAIN pm
        proj == IF "gcp_project" \in DOMAIN pm THEN pm["gcp_project"]
                ELSE pm["gcp_project_number"]
        stsPort == Atoi(meta.StsPort)
        noConfig == TypedConfig("", <<>>, <<>>, "", 0)
    IN IF ~ok THEN [err |-> TRUE, any |-> noConfig]
       ELSE IF meta.StsPort # ""
            THEN IF stsPort.err \/ stsPort.val < 1
                 THEN [err |-> TRUE, any |-> noConfig]
                 ELSE [err |-> FALSE,
                       any |-> TypedConfig("OpenCensusConfig", <<>>, <<>>, proj, stsPort.val)]
            ELSE [err |-> FALSE, any |-> TypedConfig("OpenCensusConfig", <<>>, <<>>, proj, 0)]

\* the part of both builders after the typed configuration was generated
builtTracing(provider, maxTagLen, any) ==
    [EmptyTracing EXCEPT
        !.Provider = Some([Name |-> provider, TypedConfig |-> any]),
        !.MaxPathTagLength = IF maxTagLen # 0 THEN Some(maxTagLen) ELSE None]

\* anyFn(cluster) for the typedConfigGenFromClusterFn passed under the name anyFn
callAnyFn(anyFn, cluster) ==
    CASE anyFn = "zipkinConfigGen" -> zipkinConfigGen(cluster)
      [] anyFn = "datadogConfigGen" -> datadogConfigGen(cluster)
      [] anyFn = "lightstepConfigGen" -> lightstepConfigGen(cluster)

\* faulty variant: the error of the cluster lookup is dropped
buildHCMTracing_ignoreLookupError(pushCtx, provider, svc, port, maxTagLen, anyFn) ==
    LET lookup == clusterLookupFn(pushCtx, svc, port)
        gen == callAnyFn(anyFn, lookup.cluster)
    IN IF gen.err THEN [config |-> EmptyTracing, err |-> TRUE]
       ELSE [config |-> builtTracing(provider, maxTagLen, gen.any), err |-> FALSE]

buildHCMTracing(pushCtx, provider, svc, port, maxTagLen, anyFn) ==
    LET lookup == clusterLookupFn(pushCtx, svc, port)
        gen == callAnyFn(anyFn, lookup.cluster)
    IN IF lookup.err THEN [config |-> EmptyTracing, err |-> TRUE]
       ELSE IF gen.err THEN [config |-> EmptyTracing, err |-> TRUE]
       ELSE [config |-> builtTracing(provider, maxTagLen, gen.any), err |-> FALSE]

buildHCMTracingOpenCensus(provider, maxTagLen, gen) ==
    IF gen.err THEN [config |-> EmptyTracing, err |-> TRUE]
    ELSE [config |-> builtTracing(provider, maxTagLen, gen.any), err |-> FALSE]

configureFromProviderConfig(pushCtx, meta, providerCfg) ==
    CASE providerCfg.Kind = "Zipkin" ->
           buildHCMTracing(pushCtx, providerCfg.Name, providerCfg.Service, providerCfg.Port,
                           providerCfg.MaxTagLength, "zipkinConfigGen")
      [] providerCfg.Kind = "Datadog" ->
           buildHCMTracing(pushCtx, providerCfg.Name, providerCfg.Service, providerCfg.Port,
                           providerCfg.MaxTagLength, "datadogConfigGen")
      [] providerCfg.Kind = "Lightstep" ->
           buildHCMTracing(pushCtx, providerCfg.Name, providerCfg.Service, providerCfg.Port,
                           providerCfg.MaxTagLength, "lightstepConfigGen")
      [] providerCfg.Kind = "Opencensus" ->
           buildHCMTracingOpenCensus(providerCfg.Name, providerCfg.MaxTagLength,
                                     opencensusConfigGen(providerCfg))
      [] providerCfg.Kind = "Stackdriver" ->
           buildHCMTracingOpenCensus(providerCfg.Name, providerCfg.MaxTagLength,
                                     stackdriverConfigGen(meta))
      [] OTHER -> [config |-> EmptyTracing, err |-> FALSE]

(***************************************************************************)
(* Orchestrator                                                            *)
(***************************************************************************)

RECURSIVE scanProviders(_, _, _, _)
\* the loop over meshCfg.ExtensionProviders: Some(tcfg) of the first entry whose
\* name folds to providerName and whose builder returns no error, None if the
\* loop ends without one
scanProviders(providers, providerName, pushCtx, meta) ==
    IF providers = <<>> THEN None
    ELSE LET p == Head(providers)
             built == configureFromProviderConfig(pushCtx, meta, p)
         IN IF EqualFold(p.Name, providerName)
            THEN IF built.err
                 THEN scanProviders(Tail(providers), providerName, pushCtx, meta)
                 ELSE Some(built.config)
            ELSE scanProviders(Tail(providers), providerName, pushCtx, meta)

\* spec.GetTracing()
GetTracing(s) == IF s = None THEN <<>> ELSE s[1].Tracing

\* proxyCfg.GetTracing().GetMaxPathTagLength()
GetMaxPathTagLength(proxyCfg) ==
    IF proxyCfg.Tracing = None THEN 0 ELSE proxyCfg.Tracing[1].MaxPathTagLength

\* the fallback of both branches: the proxy configuration's max tag length, when set
legacyMaxPathTagLength(t, proxyCfg) ==
    IF GetMaxPathTagLength(proxyCfg) # 0
    THEN [t EXCEPT !.MaxPathTagLength = Some(GetMaxPathTagLength(proxyCfg))]
    ELSE t

\* faulty variant: the proxy configuration's max tag length is taken whenever it is
\* set, as in the branch without a tracing spec, also over the builder's value
providerTracing_proxyOverrides(tracingCfg, o, h) ==
    LET meshCfg == o.push.Mesh
        proxyCfg == o.proxy.ProxyConfig
        providerName ==
            IF Len(tracingCfg.Providers) > 0
            THEN tracingCfg.Providers[1].Name
            ELSE meshCfg.DefaultProviders.Tracing
        found == scanProviders(meshCfg.ExtensionProviders, providerName,
                               o.push, o.proxy.Metadata)
        tcfg == IF found # None THEN found[1] ELSE EmptyTracing
    IN {[h EXCEPT !.Tracing = Some(legacyMaxPathTagLength(t, proxyCfg))] :
           t \in configureCustomTags(
                    configureSampling(tcfg, tracingCfg.RandomSamplingPercentage, proxyCfg),
                    tracingCfg.CustomTags, proxyCfg)}

\* the branch of a tracing spec that reports spans: provider, then sampling, custom
\* tags and the max tag length fallback
providerTracing(tracingCfg, o, h) ==
    LET meshCfg == o.push.Mesh
        proxyCfg == o.proxy.ProxyConfig
        providerName ==
            IF Len(tracingCfg.Providers) > 0
            THEN tracingCfg.Providers[1].Name
            ELSE meshCfg.DefaultProviders.Tracing
        found == scanProviders(meshCfg.ExtensionProviders, providerName,
                               o.push, o.proxy.Metadata)
        tcfg == IF found # None THEN found[1] ELSE EmptyTracing
    IN {[h EXCEPT !.Tracing =
              Some(IF t.MaxPathTagLength = None
                   THEN legacyMaxPathTagLength(t, proxyCfg)
                   ELSE t)] :
           t \in configureCustomTags(
                    configureSampling(tcfg, tracingCfg.RandomSamplingPercentage, proxyCfg),
                    tracingCfg.CustomTags, proxyCfg)}

\* faulty variant: without a tracing spec the mesh's default provider is configured
legacyTracing_defaultProvider(o, h) ==
    providerTracing([DisableSpanReporting |-> FALSE, Providers |-> <<>>,
                     RandomSamplingPercentage |-> 0, CustomTags |-> <<>>], o, h)

\* the branch without a tracing spec and with meshCfg.EnableTracing: the prior
\* configuration bits of sampling and custom tags
legacyTracing(o, h) ==
    LET proxyCfg == o.proxy.ProxyConfig
    IN {[h EXCEPT !.Tracing = Some(legacyMaxPathTagLength(t, proxyCfg))] :
           t \in configureCustomTags(configureSampling(EmptyTracing, 0, proxyCfg),
                                     <<>>, proxyCfg)}

\* faulty variant: DisableSpanReporting is not consulted
configureTracingFromSpec_ignoreDisable(s, o, h) ==
    IF Len(GetTracing(s)) = 0
    THEN IF ~o.push.Mesh.EnableTracing THEN {h} ELSE legacyTracing(o, h)
    ELSE providerTracing(GetTracing(s)[1], o, h)

\* the connection managers configureTracingFromSpec may leave behind when called
\* with directive s, options o and connection manager h
configureTracingFromSpec(s, o, h) ==
    IF Len(GetTracing(s)) = 0
    THEN IF ~o.push.Mesh.EnableTracing THEN {h} ELSE legacyTracing(o, h)
    ELSE IF GetTracing(s)[1].DisableSpanReporting
         THEN {h}
         ELSE providerTracing(GetTracing(s)[1], o, h)

(***************************************************************************)
(* Inputs of the model                                                     *)
(***************************************************************************)

\* most keys in a custom-tag map of the model
MaxTags == 3
\* most entries in meshConfig.extensionProviders of the model
MaxProviders == 2

\* every map from at most n of the keys to the values
MapsUpTo(keys, values, n) ==
    UNION {[K -> values] : K \in {K \in SUBSET keys : Cardinality(K) <= n}}

CustomTagNames == {"app", "istio.canonical_revision", "istio.namespace", "zone"}

\* telemetrypb.Tracing_CustomTag values: the three variants and an unset oneof
DirectiveTagInfos ==
    {[Type |-> "Environment", Name |-> "POD_NAME", DefaultValue |-> "pod", Value |-> ""],
     [Type |-> "Header", Name |-> "x-app", DefaultValue |-> "none", Value |-> ""],
     [Type |-> "Literal", Name |-> "", DefaultValue |-> "", Value |-> "directive"],
     [Type |-> "Unset", Name |-> "", DefaultValue |-> "", Value |-> ""]}

\* meshconfig.Tracing_CustomTag values of the legacy proxy configuration
LegacyTagInfos ==
    {[Type |-> "Literal", Name |-> "", DefaultValue |-> "", Value |-> "legacy"]}

DirectiveTagMaps == MapsUpTo(CustomTagNames, DirectiveTagInfos, MaxTags)
LegacyTagMaps == MapsUpTo(CustomTagNames, LegacyTagInfos, MaxTags)

\* one map of each kind for the inputs that do not vary the tags
SomeDirectiveTags ==
    [n \in {"istio.namespace"} |->
        [Type |-> "Literal", Name |-> "", DefaultValue |-> "", Value |-> "directive"]]
SomeLegacyTags ==
    [n \in {"zone"} |->
        [Type |-> "Literal", Name |-> "", DefaultValue |-> "", Value |-> "legacy"]]

\* percentages: negative, zero, in range, the upper limit, above it
Percentages == {0 - 5, 0, 50, 100, 150}

\* values of features.TraceSampling
TraceSamplings == {0 - 1, 0, 30, 150}

Provider(name, kind, svc, maxTagLen) ==
    [Name |-> name, Kind |-> kind, Service |-> svc, Port |-> 9411, MaxTagLength |-> maxTagLen]

\* meshconfig.MeshConfig_ExtensionProvider values: every tracing kind, with a
\* service the push context knows or not, and a provider of a kind that is not a
\* tracing kind
ProviderDefs ==
    {Provider("zipkin", "Zipkin", "zipkin.svc", 128),
     Provider("zipkin", "Zipkin", "gone.svc", 64),
     Provider("Zipkin", "Datadog", "gone.svc", 0),
     Provider("zipkin", "Lightstep", "gone.svc", 16),
     Provider("zipkin", "Stackdriver", "", 32),
     Provider("zipkin", "Opencensus", "oc.svc", 0),
     Provider("other", "Zipkin", "zipkin.svc", 8),
     Provider("zipkin", "EnvoyExtAuthzHttp", "authz.svc", 0)}

ProviderLists == SeqsUpTo(ProviderDefs, MaxProviders)

\* proxy metadata: platform metadata and STS port
NodeMetadatas ==
    {[PlatformMetadata |-> [k \in {"gcp_project"} |-> "proj-1"], StsPort |-> ""],
     [PlatformMetadata |-> [k \in {"gcp_project_number"} |-> "12345"], StsPort |-> "15463"],
     [PlatformMetadata |-> <<>>, StsPort |-> ""],
     [PlatformMetadata |-> [k \in {"gcp_project"} |-> "proj-1"], StsPort |-> "abc"],
     [PlatformMetadata |-> [k \in {"gcp_project"} |-> "proj-1"], StsPort |-> "0"]}

SomeMetadata == [PlatformMetadata |-> [k \in {"gcp_project"} |-> "proj-1"], StsPort |-> ""]

TracingSpec(disable, providers, percentage, tags) ==
    [DisableSpanReporting |-> disable, Providers |-> providers,
     RandomSamplingPercentage |-> percentage, CustomTags |-> tags]

\* a second tracing spec, which configureTracingFromSpec ignores
OtherSpec == TracingSpec(FALSE, <<[Name |-> "other"]>>, 100, <<>>)

\* the directives over the given spec fields: absent, without specs, with one
\* spec, with two
Directives(disables, providerRefs, percentages, tagMaps) ==
    LET specs == {TracingSpec(d, r, p, t) :
                     d \in disables, r \in providerRefs, p \in percentages, t \in tagMaps}
    IN {None, Some([Tracing |-> <<>>])}
       \cup {Some([Tracing |-> <<s>>]) : s \in specs}
       \cup {Some([Tracing |-> <<s, OtherSpec>>]) : s \in specs}

ProxyTracing(sampling, tags, maxLen) ==
    Some([Sampling |-> sampling, CustomTags |-> tags, MaxPathTagLength |-> maxLen])

Options(enable, defaultProvider, providers, proxyTracing, meta) ==
    [push |-> [Mesh |-> [EnableTracing |-> enable,
                         DefaultProviders |-> [Tracing |-> defaultProvider],
                         ExtensionProviders |-> providers],
               Services |-> {"zipkin.svc"}],
     proxy |-> [ProxyConfig |-> [Tracing |-> proxyTracing], Metadata |-> meta]]

\* inputs that vary the sampling values
SamplingInputs ==
    {<<d, Options(e, "", <<>>, t, SomeMetadata)>> :
        d \in Directives(BOOLEAN, {<<>>}, Percentages, {<<>>}),
        e \in BOOLEAN,
        t \in {None} \cup {ProxyTracing(s, <<>>, m) : s \in Percentages, m \in {0, 256}}}

\* inputs that vary the custom tags
TagInputs ==
    {<<d, Options(e, "", <<>>, ProxyTracing(50, t, 0), SomeMetadata)>> :
        d \in {None, Some([Tracing |-> <<>>])}
              \cup {Some([Tracing |-> <<TracingSpec(FALSE, <<>>, 0, m)>>]) :
                       m \in DirectiveTagMaps},
        e \in BOOLEAN,
        t \in LegacyTagMaps}

\* inputs that vary the providers
ProviderInputs ==
    {<<d, Options(e, n, l, ProxyTracing(0, SomeLegacyTags, m), meta)>> :
        d \in {None} \cup {Some([Tracing |-> <<TracingSpec(x, r, 50, SomeDirectiveTags)>>]) :
                              x \in BOOLEAN, r \in {<<>>, <<[Name |-> "ZIPKIN"]>>}},
        e \in BOOLEAN,
        n \in {"", "zipkin"},
        l \in ProviderLists,
        m \in {0, 256},
        meta \in NodeMetadatas}

(***************************************************************************)
(* The resolution as a state machine                                       *)
(***************************************************************************)

\* the connection manager the listener build hands to configureTracing
NewHCM == [Tracing |-> None]

ProbeIdle ==
    /\ atleastOnceReady = FALSE
    /\ server = None
    /\ err = None
    /\ op = "new"
    /\ checks = 0

\* the process-wide default sampling for a value of features.TraceSampling
SamplingEnvs == {getPilotRandomSamplingEnv(f) : f \in TraceSamplings}

InitSampling ==
    /\ \E in \in SamplingInputs :
          /\ spec = in[1]
          /\ opts = in[2]
    /\ pilotTraceSamplingEnv \in SamplingEnvs
    /\ gapSortPass = TRUE

InitTags ==
    /\ \E in \in TagInputs :
          /\ spec = in[1]
          /\ opts = in[2]
    /\ pilotTraceSamplingEnv = getPilotRandomSamplingEnv(30)
    /\ gapSortPass \in BOOLEAN

InitProviders ==
    /\ \E in \in ProviderInputs :
          /\ spec = in[1]
          /\ opts = in[2]
    /\ pilotTraceSamplingEnv = getPilotRandomSamplingEnv(30)
    /\ gapSortPass = TRUE

Init ==
    /\ pc = "start"
    /\ hcm = NewHCM
    /\ EnableIstioTags \in BOOLEAN
    /\ first = None
    /\ ProbeIdle
    /\ InitSampling \/ InitTags \/ InitProviders

\* configureTracing(opts, hcm) of one listener build
ConfigureTracing ==
    /\ pc = "start"
    /\ hcm' \in configureTracingFromSpec(spec, opts, hcm)
    /\ pc' = "done"
    /\ first' = IF first = None
                THEN Some([spec |-> spec, opts |-> opts, hcm |-> hcm'])
                ELSE first
    /\ UNCHANGED <<spec, opts, EnableIstioTags, pilotTraceSamplingEnv, gapSortPass>>
    /\ UNCHANGED probeVars

Next == ConfigureTracing

Spec == Init /\ [][Next]_vars

(***************************************************************************)
(* A sequence of listener builds                                           *)
(***************************************************************************)

\* a directive tag map with a name below the built-in names, the name of the first
\* built-in tag and a name above them
ThreeDirectiveTags ==
    [n \in {"app", "istio.canonical_revision", "zone"} |->
        [Type |-> "Literal", Name |-> "", DefaultValue |-> "", Value |-> "directive"]]

\* the inputs of the builds of a sequence
SeqDirectives ==
    {None,
     Some([Tracing |-> <<TracingSpec(FALSE, <<>>, 50, ThreeDirectiveTags)>>]),
     Some([Tracing |-> <<TracingSpec(TRUE, <<>>, 50, SomeDirectiveTags)>>]),
     Some([Tracing |-> <<TracingSpec(FALSE, <<>>, 50, SomeDirectiveTags)>>]),
     Some([Tracing |-> <<TracingSpec(FALSE, <<[Name |-> "other"]>>, 0, <<>>)>>])}

SeqInputs ==
    {<<d, Options(e, "zipkin", <<Provider("zipkin", "Zipkin", "zipkin.svc", 128)>>,
                  ProxyTracing(s, SomeLegacyTags, 256), SomeMetadata)>> :
        d \in SeqDirectives, e \in BOOLEAN, s \in {0, 50}}

InitSeq ==
    /\ pc = "start"
    /\ \E in \in SeqInputs :
          /\ spec = in[1]
          /\ opts = in[2]
    /\ hcm = NewHCM
    /\ EnableIstioTags \in BOOLEAN
    /\ pilotTraceSamplingEnv \in {getPilotRandomSamplingEnv(f) : f \in {30, 150}}
    /\ gapSortPass \in BOOLEAN
    /\ first = None
    /\ ProbeIdle

\* the next listener build: a new connection manager and the inputs of that build
NextPush ==
    /\ pc = "done"
    /\ \E in \in SeqInputs :
          /\ spec' = in[1]
          /\ opts' = in[2]
    /\ hcm' = NewHCM
    /\ pc' = "start"
    /\ UNCHANGED <<EnableIstioTags, pilotTraceSamplingEnv, gapSortPass, first>>
    /\ UNCHANGED probeVars

NextSeq == ConfigureTracing \/ NextPush

SpecSeq == InitSeq /\ [][NextSeq]_vars

(***************************************************************************)
(* The readiness probe                                                     *)
(***************************************************************************)

\* most Check calls of a run of the probe
MaxChecks == 4

\* the statistics the test servers serve: the four package fixtures and the five
\* cases of TestEnvoyStats
StatsFixtures ==
    {"liveServerStats", "onlyServerStats", "initServerStats", "noServerStats",
     "only lds", "only cds", "reject CDS", "workers not started", "full"}

ConfigNotReceived(cdsOk, cdsRejected, ldsOk, ldsRejected) ==
    Some(<<"config not received from Pilot (is Pilot running?)",
           cdsOk, cdsRejected, ldsOk, ldsRejected>>)

\* faulty variant: the probe looks at the configuration updates only
checkStats_configOnly(stats) ==
    CASE stats = "only lds" -> ConfigNotReceived(0, 0, 1, 0)
      [] stats = "only cds" -> ConfigNotReceived(1, 0, 0, 0)
      [] stats = "reject CDS" -> ConfigNotReceived(0, 1, 1, 0)
      [] stats \in {"onlyServerStats", "noServerStats"} -> ConfigNotReceived(0, 0, 0, 0)
      [] OTHER -> None

\* the error a Check of a probe that was never ready returns for the statistics, as
\* the tests expect it: None for no error
checkStats(stats) ==
    CASE stats = "only lds" -> ConfigNotReceived(0, 0, 1, 0)
      [] stats = "only cds" -> ConfigNotReceived(1, 0, 0, 0)
      [] stats = "reject CDS" -> ConfigNotReceived(0, 1, 1, 0)
      [] stats = "workers not started" -> Some(<<"workers have not yet started">>)
      [] stats \in {"full", "liveServerStats"} -> None
      [] stats \in {"initServerStats", "onlyServerStats", "noServerStats"} ->
           Some(<<"not ready">>)

TracingIdle ==
    /\ pc = "done"
    /\ spec = None
    /\ opts = Options(FALSE, "", <<>>, None, SomeMetadata)
    /\ hcm = NewHCM
    /\ EnableIstioTags = TRUE
    /\ pilotTraceSamplingEnv = getPilotRandomSamplingEnv(100)
    /\ gapSortPass = TRUE
    /\ first = None

\* probe := Probe{AdminPort: 1234}, no server started yet
InitProbe ==
    /\ TracingIdle
    /\ ProbeIdle

\* testserver.CreateAndStartServer(stats, "127.0.0.1:1234")
CreateAndStartServer ==
    /\ server = None
    /\ \E stats \in StatsFixtures : server' = Some(stats)
    /\ op' = "CreateAndStartServer"
    /\ UNCHANGED <<atleastOnceReady, err, checks>>
    /\ UNCHANGED tracingVars

\* server.Close()
ServerClose ==
    /\ server # None
    /\ server' = None
    /\ op' = "Close"
    /\ UNCHANGED <<atleastOnceReady, err, checks>>
    /\ UNCHANGED tracingVars

\* probe.Check(): once ready, ready; else the verdict on the admin statistics
Check ==
    /\ checks < MaxChecks
    /\ checks' = checks + 1
    /\ op' = "Check"
    /\ err' = IF atleastOnceReady THEN None
              ELSE IF server = None THEN Some(<<"connection refused">>)
              ELSE checkStats(server[1])
    /\ atleastOnceReady' = (atleastOnceReady \/ err' = None)
    /\ UNCHANGED server
    /\ UNCHANGED tracingVars

NextProbe == CreateAndStartServer \/ ServerClose \/ Check

SpecProbe == InitProbe /\ [][NextProbe]_vars

(***************************************************************************)
(* Properties of one resolution                                            *)
(***************************************************************************)

Done == pc = "done"

\* the resolution left a tracing block on the connection manager
HasTracing == hcm.Tracing # None
Tracing == hcm.Tracing[1]

NoSpecs == Len(GetTracing(spec)) = 0
FirstSpec == GetTracing(spec)[1]
ProxyCfg == opts.proxy.ProxyConfig
MeshCfg == opts.push.Mesh

\* the directive has a first spec, and it reports spans
SpecReports == ~NoSpecs /\ ~FirstSpec.DisableSpanReporting

\* the provider percentage handed to the Sampling Resolver
ProviderPercentage == IF NoSpecs THEN 0 ELSE FirstSpec.RandomSamplingPercentage

LegacySampling == IF ProxyCfg.Tracing = None THEN 0 ELSE ProxyCfg.Tracing[1].Sampling
LegacyTags == IF ProxyCfg.Tracing = None THEN <<>> ELSE ProxyCfg.Tracing[1].CustomTags

\* the random sampling the precedence chain prescribes
ChainSampling ==
    IF ProviderPercentage # 0 THEN ProviderPercentage
    ELSE IF LegacySampling # 0
         THEN IF LegacySampling > 100 THEN 1 ELSE LegacySampling
         ELSE pilotTraceSamplingEnv

Count(x, s) == Cardinality({i \in DOMAIN s : s[i] = x})

\* s and t hold the same tags the same number of times
SameTags(s, t) ==
    /\ Len(s) = Len(t)
    /\ \A x \in Range(s) \cup Range(t) : Count(x, s) = Count(x, t)

BuiltinTags == IF EnableIstioTags THEN defaultTags ELSE <<>>

\* the converted tags of a map, in one of the orders of its keys
ConvertedDirectiveTags(m) ==
    buildCustomTagsFromProvider(m, CHOOSE it \in Enumerations(DOMAIN m) : TRUE)
ConvertedLegacyTags(m) ==
    buildCustomTagsFromProxyConfig(m, CHOOSE it \in Enumerations(DOMAIN m) : TRUE)

StrictlyAscending(tags) ==
    \A i \in 1..(Len(tags) - 1) : TagLess(tags[i].Tag, tags[i + 1].Tag)

\* the entries of meshConfig.extensionProviders whose name matches the provider
\* the first spec names
NamedProvider == FirstSpec.Providers[1].Name
MatchingEntries ==
    {i \in DOMAIN MeshCfg.ExtensionProviders :
        EqualFold(MeshCfg.ExtensionProviders[i].Name, NamedProvider)}
\* the Backend Builder of entry i fails: the cluster of a Zipkin, Datadog or
\* Lightstep entry is unknown, or a Stackdriver entry finds no project id or an STS
\* port that is no positive integer
BuilderFails(i) ==
    LET p == MeshCfg.ExtensionProviders[i]
        meta == opts.proxy.Metadata
    IN \/ /\ p.Kind \in {"Zipkin", "Datadog", "Lightstep"}
          /\ p.Service \notin opts.push.Services
       \/ /\ p.Kind = "Stackdriver"
          /\ \/ DOMAIN meta.PlatformMetadata \cap {"gcp_project", "gcp_project_number"} = {}
             \/ meta.StsPort \in {"abc", "0"}

\* C1 as stated: after every resolution the result has clientSampling = 100 and
\* overallSampling = 100, whatever the directive, mesh and proxy configuration.
C1_SamplingFixedForEveryInput ==
    Done => /\ HasTracing
            /\ Tracing.ClientSampling = Some(100)
            /\ Tracing.OverallSampling = Some(100)

\* C1 amended: a resolution leaves a tracing block exactly when the first spec
\* reports spans, or there is no spec and meshConfig.enableTracing is true; every
\* tracing block has clientSampling = 100 and overallSampling = 100.
C1_SamplingFixedWhenConfigured ==
    Done => /\ HasTracing <=> (SpecReports \/ (NoSpecs /\ MeshCfg.EnableTracing))
            /\ HasTracing => /\ Tracing.ClientSampling = Some(100)
                             /\ Tracing.OverallSampling = Some(100)

\* a resolution that configured a provider and took a random sampling other than
\* 100 from the directive
C1_Witness ==
    /\ Done /\ HasTracing
    /\ Tracing.Provider # None
    /\ Tracing.RandomSampling = Some(50)
    /\ Tracing.ClientSampling = Some(100)
    /\ Tracing.OverallSampling = Some(100)

\* C2: when the first tracing spec has disableSpanReporting = true, the resolution
\* leaves no tracing block: no provider, no custom tags, no sampling field, whatever
\* the mesh and proxy configuration.
C2_DisabledLeavesNothing ==
    (Done /\ ~NoSpecs /\ FirstSpec.DisableSpanReporting) => ~HasTracing

\* span reporting disabled while the mesh enables tracing and its default provider
\* is the first, buildable, extension provider
C2_Witness ==
    /\ Done /\ ~NoSpecs /\ FirstSpec.DisableSpanReporting
    /\ MeshCfg.EnableTracing
    /\ MeshCfg.DefaultProviders.Tracing = "zipkin"
    /\ Len(MeshCfg.ExtensionProviders) > 0
    /\ MeshCfg.ExtensionProviders[1] = Provider("zipkin", "Zipkin", "zipkin.svc", 128)
    /\ FirstSpec.CustomTags # <<>>
    /\ ~HasTracing

\* C3: the custom tags of a result are sorted strictly ascending by tag name, and
\* they are the same sequence for every iteration order of the input maps.
C3_TagsStrictlySortedAndUnique ==
    (Done /\ HasTracing) =>
        /\ StrictlyAscending(Tracing.CustomTags)
        /\ \A h \in configureTracingFromSpec(spec, opts, NewHCM) :
              h.Tracing[1].CustomTags = Tracing.CustomTags

\* C4: the random-sampling percentage of a result lies in [0,100].
C4_RandomSamplingInRange ==
    (Done /\ HasTracing) =>
        /\ Tracing.RandomSampling # None
        /\ Tracing.RandomSampling[1] >= 0
        /\ Tracing.RandomSampling[1] <= 100

\* C5: a provider percentage of 0 is unset: the random sampling is then the proxy
\* configuration's sampling when nonzero (1 when it exceeds 100), else the
\* process-wide default; a nonzero provider percentage is used verbatim.
C5_ZeroProviderPercentageIsUnset ==
    (Done /\ HasTracing) =>
        /\ ProviderPercentage # 0 => Tracing.RandomSampling = Some(ProviderPercentage)
        /\ (ProviderPercentage = 0 /\ LegacySampling > 100) =>
              Tracing.RandomSampling = Some(1)
        /\ (ProviderPercentage = 0 /\ LegacySampling # 0 /\ LegacySampling <= 100) =>
              Tracing.RandomSampling = Some(LegacySampling)
        /\ (ProviderPercentage = 0 /\ LegacySampling = 0) =>
              Tracing.RandomSampling = Some(pilotTraceSamplingEnv)

\* a spec with percentage 0 over a legacy sampling above 100, resolved to 1 with a
\* process-wide default that is not 1
C5_Witness ==
    /\ Done /\ HasTracing /\ SpecReports
    /\ FirstSpec.RandomSamplingPercentage = 0
    /\ LegacySampling = 150
    /\ pilotTraceSamplingEnv = 30
    /\ Tracing.RandomSampling = Some(1)

\* C6: when the first spec reports spans and names a provider, and every matching
\* extension provider fails to build, the result is present with no provider, and
\* its sampling and custom tags are those of the directive with the legacy fallback.
C6_FailedBuildersDegrade ==
    (/\ Done /\ SpecReports
     /\ Len(FirstSpec.Providers) > 0
     /\ MatchingEntries # {}
     /\ \A i \in MatchingEntries : BuilderFails(i)) =>
        /\ HasTracing
        /\ Tracing.Provider = None
        /\ Tracing.RandomSampling = Some(ChainSampling)
        /\ SameTags(Tracing.CustomTags,
                    BuiltinTags \o IF Cardinality(DOMAIN FirstSpec.CustomTags) = 0
                                   THEN ConvertedLegacyTags(LegacyTags)
                                   ELSE ConvertedDirectiveTags(FirstSpec.CustomTags))

\* a Zipkin entry with an unknown cluster and a Stackdriver entry without a project
\* id both match and fail; the result has no provider, the directive's sampling
\* and the directive's tag
C6_Witness ==
    /\ Done /\ SpecReports
    /\ Len(FirstSpec.Providers) > 0
    /\ \E i, j \in MatchingEntries :
          /\ MeshCfg.ExtensionProviders[i].Kind = "Zipkin"
          /\ MeshCfg.ExtensionProviders[j].Kind = "Stackdriver"
    /\ \A i \in MatchingEntries : BuilderFails(i)
    /\ HasTracing
    /\ Tracing.Provider = None
    /\ Tracing.RandomSampling = Some(50)
    /\ \E k \in DOMAIN Tracing.CustomTags : Tracing.CustomTags[k].Value = "directive"

\* C7: without a tracing spec the result is empty when meshConfig.enableTracing is
\* false; otherwise it is present with no provider, the legacy chain's sampling,
\* the built-in tags (when enabled) plus the legacy proxy tags, and maxPathTagLength
\* set exactly when the proxy configuration's value is nonzero.
C7_NoSpecFollowsLegacy ==
    (Done /\ NoSpecs) =>
        IF ~MeshCfg.EnableTracing
        THEN ~HasTracing
        ELSE /\ HasTracing
             /\ Tracing.Provider = None
             /\ Tracing.RandomSampling =
                   Some(IF LegacySampling # 0
                        THEN IF LegacySampling > 100 THEN 1 ELSE LegacySampling
                        ELSE pilotTraceSamplingEnv)
             /\ SameTags(Tracing.CustomTags, BuiltinTags \o ConvertedLegacyTags(LegacyTags))
             /\ Tracing.MaxPathTagLength =
                   IF GetMaxPathTagLength(ProxyCfg) # 0
                   THEN Some(GetMaxPathTagLength(ProxyCfg))
                   ELSE None

\* no directive, tracing enabled, and a default provider that the first extension
\* provider would build: the result has no provider, the legacy tag and the proxy
\* configuration's max tag length
C7_Witness ==
    /\ Done /\ spec = None
    /\ MeshCfg.EnableTracing
    /\ MeshCfg.DefaultProviders.Tracing = "zipkin"
    /\ Len(MeshCfg.ExtensionProviders) > 0
    /\ MeshCfg.ExtensionProviders[1] = Provider("zipkin", "Zipkin", "zipkin.svc", 128)
    /\ HasTracing
    /\ Tracing.Provider = None
    /\ Tracing.MaxPathTagLength = Some(256)
    /\ \E k \in DOMAIN Tracing.CustomTags : Tracing.CustomTags[k].Value = "legacy"

\* C8: when the first spec's custom-tag map is non-empty the output is the built-in
\* tags (when enabled) plus the converted directive tags, and no legacy proxy tag
\* appears in it; the legacy proxy tags appear only when that map is empty.
C8_DirectiveTagsExcludeLegacy ==
    (Done /\ SpecReports) =>
        IF Cardinality(DOMAIN FirstSpec.CustomTags) # 0
        THEN /\ SameTags(Tracing.CustomTags,
                         BuiltinTags \o ConvertedDirectiveTags(FirstSpec.CustomTags))
             /\ \A k \in DOMAIN Tracing.CustomTags : Tracing.CustomTags[k].Value # "legacy"
        ELSE SameTags(Tracing.CustomTags, BuiltinTags \o ConvertedLegacyTags(LegacyTags))

\* directive tags and legacy tags under the same and under different names; only
\* the directive's tags are in the output
C8_Witness ==
    /\ Done /\ SpecReports
    /\ DOMAIN FirstSpec.CustomTags = {"app", "zone"}
    /\ DOMAIN LegacyTags = {"zone", "istio.namespace", "istio.canonical_revision"}
    /\ \E k \in DOMAIN Tracing.CustomTags : Tracing.CustomTags[k].Tag = "zone"
    /\ \A k \in DOMAIN Tracing.CustomTags : Tracing.CustomTags[k].Value # "legacy"

\* providerName: the first spec's first provider reference when it has any, else
\* meshConfig.defaultProviders.tracing
ProviderName ==
    IF Len(FirstSpec.Providers) > 0
    THEN FirstSpec.Providers[1].Name
    ELSE MeshCfg.DefaultProviders.Tracing

\* the entries of meshConfig.extensionProviders whose name equals providerName
\* case-insensitively
NameMatches ==
    {i \in DOMAIN MeshCfg.ExtensionProviders :
        EqualFold(MeshCfg.ExtensionProviders[i].Name, ProviderName)}

\* the kinds that have a Backend Builder
BackendKinds == {"Zipkin", "Datadog", "Lightstep", "Opencensus", "Stackdriver"}

\* the Backend Builder of entry i succeeds
BuilderSucceeds(i) ==
    /\ MeshCfg.ExtensionProviders[i].Kind \in BackendKinds
    /\ ~BuilderFails(i)

\* the least member of a non-empty set of indices
Least(S) == CHOOSE i \in S : \A j \in S : i <= j

\* the provider the builder of entry i leaves in its tracing block
BuiltProvider(i) ==
    configureFromProviderConfig(opts.push, opts.proxy.Metadata,
                                MeshCfg.ExtensionProviders[i]).config.Provider

\* C11: the provider of the result is the one built from the first entry of
\* meshConfig.extensionProviders, in list order, whose name equals providerName
\* case-insensitively and whose Backend Builder succeeds; the result has no provider
\* exactly when no matching entry builds successfully.
C11_FirstSuccessfulMatchIsProvider ==
    (Done /\ SpecReports) =>
        LET successful == {i \in NameMatches : BuilderSucceeds(i)}
        IN IF successful = {}
           THEN Tracing.Provider = None
           ELSE /\ Tracing.Provider # None
                /\ Tracing.Provider = BuiltProvider(Least(successful))

\* the entry the scan stops at: the first matching entry whose builder raises no
\* error, 0 when every matching entry fails
ScanStop ==
    LET passed == {i \in NameMatches : ~BuilderFails(i)}
    IN IF passed = {} THEN 0 ELSE Least(passed)

\* a Backend Builder succeeded in this resolution: the scan stopped at an entry of
\* a kind that has one
BuilderSucceeded ==
    /\ ScanStop # 0
    /\ MeshCfg.ExtensionProviders[ScanStop].Kind \in BackendKinds

\* C12: when the first spec reports spans, maxPathTagLength is the max tag length
\* of the provider entry whose builder succeeded when that is nonzero; otherwise
\* the proxy configuration's tracing.maxPathTagLength when that is nonzero;
\* otherwise absent.  The max tag length of a matching entry whose builder failed
\* is never the result's.
C12_MaxPathTagLengthPrecedence ==
    (Done /\ SpecReports) =>
        /\ Tracing.MaxPathTagLength =
              IF BuilderSucceeded /\ MeshCfg.ExtensionProviders[ScanStop].MaxTagLength # 0
              THEN Some(MeshCfg.ExtensionProviders[ScanStop].MaxTagLength)
              ELSE IF GetMaxPathTagLength(ProxyCfg) # 0
                   THEN Some(GetMaxPathTagLength(ProxyCfg))
                   ELSE None
        /\ \A i \in NameMatches :
              (BuilderFails(i) /\ MeshCfg.ExtensionProviders[i].MaxTagLength # 0) =>
                  Tracing.MaxPathTagLength # Some(MeshCfg.ExtensionProviders[i].MaxTagLength)

\* a matching Zipkin entry of max tag length 64 failed on its unknown cluster, the
\* next matching entry built with max tag length 128, and the proxy configuration
\* sets 256: the result carries 128
C12_Witness ==
    /\ Done /\ SpecReports
    /\ MeshCfg.ExtensionProviders =
          <<Provider("zipkin", "Zipkin", "gone.svc", 64),
            Provider("zipkin", "Zipkin", "zipkin.svc", 128)>>
    /\ NameMatches = {1, 2}
    /\ GetMaxPathTagLength(ProxyCfg) = 256
    /\ Tracing.Provider # None
    /\ Tracing.MaxPathTagLength = Some(128)

(***************************************************************************)
(* Properties of a sequence of resolutions                                 *)
(***************************************************************************)

\* C9: the outcome of a resolution is determined by its directive, mesh and proxy
\* configuration: after any earlier resolutions it is the connection manager that
\* the same inputs gave when they were resolved first, with nothing before them.
C9_OutcomeDeterminedByInputs ==
    (Done /\ first # None /\ first[1].spec = spec /\ first[1].opts = opts) =>
        hcm = first[1].hcm

(***************************************************************************)
(* Properties of the readiness probe                                       *)
(***************************************************************************)

\* the statistics the tests call healthy
HealthyStats == {"liveServerStats", "full"}

ObservesHealthy == server # None /\ server[1] \in HealthyStats

\* C10: atleastOnceReady starts false, stays false while every Check fails, becomes
\* true at the first Check that observes healthy statistics and never returns to
\* false; once it is true every Check returns no error, whatever the server serves
\* and also when it is closed.
C10_ReadinessLatch ==
    /\ atleastOnceReady = FALSE
    /\ [][/\ atleastOnceReady => atleastOnceReady'
          /\ checks' = checks => atleastOnceReady' = atleastOnceReady
          /\ checks' # checks =>
                /\ atleastOnceReady => err' = None
                /\ (~atleastOnceReady /\ ObservesHealthy) =>
                      (atleastOnceReady' /\ err' = None)
                /\ (~atleastOnceReady /\ ~ObservesHealthy) =>
                      (~atleastOnceReady' /\ err' # None)]_vars

\* a Check of a ready probe whose server is closed returned no error
C10_Witness ==
    /\ op = "Check"
    /\ server = None
    /\ atleastOnceReady
    /\ err = None
    /\ checks = 3

====
